---- MODULE Spec2Model ----
(***************************************************************************)
(* A model of treecat's training loop (treecat/training.py) and query      *)
(* server (treecat/serving.py).                                            *)
(*                                                                         *)
(* Indexing follows numpy: rows, vertices, clusters, categories and edge   *)
(* ids all start at 0.  A grid column (e, v1, v2) is kept as the pair      *)
(* <<v1, v2>> stored at index e.                                           *)
(***************************************************************************)
EXTENDS Integers, Sequences, FiniteSets, TLC

\* ------------------------------------------------------------------ bounds
\* Largest number of data rows N a trainer is built with.
MaxRows == 2
\* config['model_num_clusters'], the number M of clusters per latent.
NumClusters == 2
\* Largest count held by one cell of the multinomial data.
MaxCount == 2
\* Largest config['learning_annealing_init_rows'].
MaxInitRows == 1
\* Largest count a sample query requests for one feature.
MaxRequest == 1
\* Number of states of the modelled random generator.
RngModulus == 8
\* Largest number of data rows a run of the annealing schedule is followed over.
MaxAnnealRows == 4

\* Width K_v of every feature column of the dataset; its length is V.
FeatureWidths == <<2, 1, 2>>

V == Len(FeatureWidths)
E == V - 1
K == (V * (V - 1)) \div 2
M == NumClusters

Vertices == 0 .. (V - 1)
EdgeIds == 0 .. (E - 1)
CompleteIds == 0 .. (K - 1)
Clusters == 0 .. (M - 1)
Cats(v) == 0 .. (FeatureWidths[v + 1] - 1)
None == -1

VARIABLES
    num_rows,       \* N = assignments.shape[0]
    data,           \* self._data[v][r][c]
    assigned_rows,  \* self._assigned_rows
    assignments,    \* self.assignments[r][v]
    vert_ss,        \* self._vert_ss[v][m]
    edge_ss,        \* self._edge_ss[e][m1][m2]
    feat_ss,        \* self._feat_ss[v][c][m]
    tree_grid,      \* self.tree.tree_grid: e |-> <<v1, v2>>
    schedule,       \* self._schedule
    call,           \* the last call made: <<name, argument>>
    raised,         \* the exception the last call ended with, or "ok"
    edge_logits,    \* the weights the last sample_tree handed to the resampler
    undo,           \* the statistics as they were before the last add_row
    config,         \* self._config
    pc,             \* where train() and its schedule generator stand
    row_ids,        \* the shuffled row ids both cycles run over
    add_pos,        \* position of the row_to_add cycle
    remove_pos,     \* position of the row_to_remove cycle
    state,          \* the annealing counter, in halves
    num_fresh,
    num_stale,
    actions,        \* the (action, arg) pairs yielded so far
    rng,            \* the state of the process-wide generator np.random
    first_run,      \* what an earlier train() on the same input returned
    posterior,      \* TreeCatServer._posterior, <<>> while no server is built
    built,          \* the posterior as make_posterior returned it
    server_schedule,\* TreeCatServer._schedule
    query,          \* the last query: <<name, data, counts>>
    result          \* what the last query returned

trainer_vars == <<num_rows, data, assigned_rows, assignments, vert_ss, edge_ss,
                  feat_ss, tree_grid, schedule, call, raised, edge_logits, undo>>

train_vars == <<config, pc, row_ids, add_pos, remove_pos, state, num_fresh,
                num_stale, actions, rng, first_run>>

server_vars == <<posterior, built, server_schedule, query, result>>

vars == <<trainer_vars, train_vars, server_vars>>

Rows == 0 .. (num_rows - 1)

\* ------------------------------------------------------------ arithmetic
RECURSIVE SumOver(_, _)
\* sum of f[x] over the finite set S
SumOver(S, f) ==
    IF S = {} THEN 0
    ELSE LET x == CHOOSE y \in S : TRUE
         IN  f[x] + SumOver(S \ {x}, f)

Min(S) == CHOOSE x \in S : \A y \in S : x <= y

RECURSIVE sorted(_)
\* Python's sorted(set) of integers, as a sequence
sorted(S) ==
    IF S = {} THEN <<>>
    ELSE <<Min(S)>> \o sorted(S \ {Min(S)})

\* The tables hold exact fractions <<numerator, denominator>> in lowest terms
\* where the code holds float32.
RECURSIVE GCD(_, _)
GCD(a, b) == IF b = 0 THEN a ELSE GCD(b, a % b)

Rat(n, d) == LET g == GCD(n, d) IN <<n \div g, d \div g>>
RAdd(x, y) == Rat(x[1] * y[2] + y[1] * x[2], x[2] * y[2])
RMul(x, y) == Rat(x[1] * y[1], x[2] * y[2])
RDiv(x, y) == Rat(x[1] * y[2], x[2] * y[1])

RECURSIVE RSum(_, _)
\* f[x] summed over x in S
RSum(S, f) ==
    IF S = {} THEN <<0, 1>>
    ELSE LET x == CHOOSE y \in S : TRUE
         IN  RAdd(f[x], RSum(S \ {x}, f))

\* ------------------------------------------------- the tree collaborator
\* The candidate edges of the complete graph, (k, v1, v2) with v1 < v2.
complete_grid ==
    [k \in CompleteIds |->
        CHOOSE p \in Vertices \X Vertices :
            /\ p[1] < p[2]
            /\ k = ((p[2] * (p[2] - 1)) \div 2) + p[1]]

AllPairs == {p \in Vertices \X Vertices : p[1] < p[2]}

RECURSIVE Reach(_, _)
\* the vertices connected to the set seen by the edges es
Reach(es, seen) ==
    LET more == {w \in Vertices :
                    \E p \in es : \/ (p[1] \in seen /\ p[2] = w)
                                  \/ (p[2] \in seen /\ p[1] = w)}
    IN  IF more \subseteq seen THEN seen ELSE Reach(es, seen \cup more)

IsSpanningTree(es) == Cardinality(es) = E /\ Reach(es, {0}) = Vertices

\* Every tree grid: the E edges of a spanning tree, in any edge-id order.
TreeGrids ==
    {g \in [EdgeIds -> AllPairs] :
        /\ \A e1, e2 \in EdgeIds : e1 # e2 => g[e1] # g[e2]
        /\ IsSpanningTree({g[e] : e \in EdgeIds})}

\* the trees a server is built for: those whose edge ids follow the edges' order
ServedGrids ==
    {g \in TreeGrids :
        \A e1, e2 \in EdgeIds :
            e1 < e2 => g[e1][1] * V + g[e1][2] < g[e2][1] * V + g[e2][2]}

Neighbors(grid, v) ==
    {w \in Vertices : \E e \in DOMAIN grid : grid[e] = <<v, w>> \/ grid[e] = <<w, v>>}

RECURSIVE Visit(_, _, _)
\* breadth-first order from the root: a sequence of <<vertex, parent>>
Visit(grid, order, i) ==
    IF i > Len(order) THEN order
    ELSE LET v == order[i][1]
             children == sorted(Neighbors(grid, v) \ {order[i][2]})
         IN  Visit(grid,
                   order \o [j \in 1 .. Len(children) |-> <<children[j], v>>],
                   i + 1)

\* (vertex, parent, children) triples, every vertex after its parent.
make_propagation_schedule(grid) ==
    LET order == Visit(grid, << <<0, None>> >>, 1)
    IN  [i \in 1 .. Len(order) |->
            [v |-> order[i][1],
             parent |-> order[i][2],
             children |-> sorted(Neighbors(grid, order[i][1]) \ {order[i][2]})]]

\* ----------------------------------------------------------- the trainer
\* The trainer object as one record.
Self ==
    [assigned_rows |-> assigned_rows, assignments |-> assignments,
     vert_ss |-> vert_ss, edge_ss |-> edge_ss, feat_ss |-> feat_ss,
     tree_grid |-> tree_grid, schedule |-> schedule,
     raised |-> "ok", edge_logits |-> <<>>]

\* TreeCatTrainer.__init__ for n rows, the tree starting as grid
fresh_trainer(n, grid) ==
    [assigned_rows |-> {},
     assignments |-> [r \in 0 .. (n - 1) |-> [v \in Vertices |-> 0]],
     vert_ss |-> [v \in Vertices |-> [m \in Clusters |-> 0]],
     edge_ss |-> [e \in EdgeIds |-> [m1 \in Clusters |-> [m2 \in Clusters |-> 0]]],
     feat_ss |-> [v \in Vertices |-> [c \in Cats(v) |-> [m \in Clusters |-> 0]]],
     tree_grid |-> grid,
     schedule |-> make_propagation_schedule(grid),
     raised |-> "ok",
     edge_logits |-> <<>>]

\* assignments[sorted(assigned_rows), :]
assigned_matrix(t) ==
    LET ids == sorted(t.assigned_rows)
    IN  [i \in 1 .. Len(ids) |-> t.assignments[ids[i]]]

\* np.bincount(pairs, minlength=M * M)
bincount(pairs) ==
    [p \in 0 .. (M * M - 1) |-> Cardinality({i \in DOMAIN pairs : pairs[i] = p})]

count_pairs(mat, v1, v2) ==
    LET pairs == [i \in DOMAIN mat |-> mat[i][v1] * M + mat[i][v2]]
        flat == bincount(pairs)
    IN  [m1 \in Clusters |-> [m2 \in Clusters |-> flat[m1 * M + m2]]]

\* an _update_tree that recounts the edges and keeps the old schedule
update_tree_keeps_schedule(t) ==
    LET mat == assigned_matrix(t)
    IN  [t EXCEPT
            !.edge_ss = [e \in EdgeIds |->
                            count_pairs(mat, t.tree_grid[e][1], t.tree_grid[e][2])]]

\* _update_tree
update_tree(t) ==
    LET mat == assigned_matrix(t)
    IN  [t EXCEPT
            !.edge_ss = [e \in EdgeIds |->
                            count_pairs(mat, t.tree_grid[e][1], t.tree_grid[e][2])],
            !.schedule = make_propagation_schedule(t.tree_grid)]

\* update_tensors forgetting the edge_ss line
update_tensors_skips_edges(t, row_id, diff) ==
    LET a == t.assignments[row_id]
    IN  [t EXCEPT
            !.vert_ss = [v \in Vertices |-> [m \in Clusters |->
                            t.vert_ss[v][m] + (IF m = a[v] THEN diff ELSE 0)]],
            !.feat_ss = [v \in Vertices |-> [c \in Cats(v) |-> [m \in Clusters |->
                            t.feat_ss[v][c][m]
                            + (IF m = a[v] THEN diff * data[v][row_id][c] ELSE 0)]]]]

\* update_tensors adding the row's counts to feat_ss whatever the sign of diff
update_tensors_unsigned_feat(t, row_id, diff) ==
    LET a == t.assignments[row_id]
    IN  [t EXCEPT
            !.vert_ss = [v \in Vertices |-> [m \in Clusters |->
                            t.vert_ss[v][m] + (IF m = a[v] THEN diff ELSE 0)]],
            !.edge_ss = [e \in EdgeIds |-> [m1 \in Clusters |-> [m2 \in Clusters |->
                            t.edge_ss[e][m1][m2]
                            + (IF m1 = a[t.tree_grid[e][1]] /\ m2 = a[t.tree_grid[e][2]]
                               THEN diff ELSE 0)]]],
            !.feat_ss = [v \in Vertices |-> [c \in Cats(v) |-> [m \in Clusters |->
                            t.feat_ss[v][c][m]
                            + (IF m = a[v] THEN data[v][row_id][c] ELSE 0)]]]]

update_tensors(t, row_id, diff) ==
    LET a == t.assignments[row_id]
    IN  [t EXCEPT
            !.vert_ss = [v \in Vertices |-> [m \in Clusters |->
                            t.vert_ss[v][m] + (IF m = a[v] THEN diff ELSE 0)]],
            !.edge_ss = [e \in EdgeIds |-> [m1 \in Clusters |-> [m2 \in Clusters |->
                            t.edge_ss[e][m1][m2]
                            + (IF m1 = a[t.tree_grid[e][1]] /\ m2 = a[t.tree_grid[e][2]]
                               THEN diff ELSE 0)]]],
            !.feat_ss = [v \in Vertices |-> [c \in Cats(v) |-> [m \in Clusters |->
                            t.feat_ss[v][c][m]
                            + (IF m = a[v] THEN diff * data[v][row_id][c] ELSE 0)]]]]

\* add_row without its assertion
add_row_precondition_dropped(t, row_id) == TRUE

\* assert row_id not in self._assigned_rows
add_row_precondition(t, row_id) == row_id \notin t.assigned_rows

\* The vertices the downward pass of add_row draws a cluster for.
scheduled(t) == {t.schedule[i].v : i \in DOMAIN t.schedule}

\* draws[v] is what sample_from_probs returns for vertex v.  Every entry of
\* the message is a product of prior-smoothed (hence positive) table entries,
\* so each of the M clusters can be drawn.
add_row(t, row_id, draws) ==
    IF ~add_row_precondition(t, row_id)
    THEN [t EXCEPT !.raised = "AssertionError"]
    ELSE LET sampled == [t EXCEPT
                 !.assignments[row_id] =
                     [v \in Vertices |->
                         IF v \in scheduled(t) THEN draws[v] ELSE @[v]],
                 !.assigned_rows = @ \cup {row_id}]
         IN  update_tensors(sampled, row_id, 1)

\* assert row_id in self._assigned_rows
remove_row_precondition(t, row_id) == row_id \in t.assigned_rows

\* remove_row forgetting to take the row out of the statistics
remove_row_keeps_statistics(t, row_id) ==
    IF ~remove_row_precondition(t, row_id)
    THEN [t EXCEPT !.raised = "AssertionError"]
    ELSE [t EXCEPT !.assigned_rows = @ \ {row_id}]

\* remove_row zeroing the row of the assignment matrix it removed
remove_row_clears_assignment(t, row_id) ==
    IF ~remove_row_precondition(t, row_id)
    THEN [t EXCEPT !.raised = "AssertionError"]
    ELSE LET removed == update_tensors([t EXCEPT !.assigned_rows = @ \ {row_id}],
                                       row_id, -1)
         IN  [removed EXCEPT !.assignments[row_id] = [v \in Vertices |-> 0]]

remove_row(t, row_id) ==
    IF ~remove_row_precondition(t, row_id)
    THEN [t EXCEPT !.raised = "AssertionError"]
    ELSE update_tensors([t EXCEPT !.assigned_rows = @ \ {row_id}], row_id, -1)

\* logprob_dc(counts + edge_prior) - vertex_logits[v1] - vertex_logits[v2],
\* kept as the tables the three log-gamma sums are taken over.
edge_logit(t, v1, v2) ==
    [counts |-> count_pairs(assigned_matrix(t), v1, v2),
     vert1 |-> t.vert_ss[v1],
     vert2 |-> t.vert_ss[v2]]

\* an entry of np.zeros([K]) that was never written
ZeroLogit == [counts |-> <<>>, vert1 |-> <<>>, vert2 |-> <<>>]

\* The loop over self.tree.tree_grid.T that fills edge_logits[k].
sample_tree_logits(t) ==
    [k \in CompleteIds |->
        IF k \in EdgeIds
        THEN edge_logit(t, t.tree_grid[k][1], t.tree_grid[k][2])
        ELSE ZeroLogit]

\* new_grid is the spanning tree the resampler returns, as set_edges stores it.
sample_tree(t, new_grid) ==
    update_tree([t EXCEPT !.edge_logits = sample_tree_logits(t),
                          !.tree_grid = new_grid])

\* ------------------------------------------------ the annealing schedule
\* config['learning_annealing_epochs'] in halves: 1, 1.5, 2 and 3 epochs.
EpochsInHalves == {2, 3, 4, 6}
SampleTreeSteps == {0, 1}
Seeds == {0, 1}

Configs ==
    [model_num_clusters : {NumClusters},
     learning_annealing_epochs : EpochsInHalves,
     learning_annealing_init_rows : 0 .. MaxInitRows,
     learning_sample_tree_steps : SampleTreeSteps,
     seed : Seeds]

\* a counter that regains one row (two halves) per removal, whatever the epochs
add_rate_one_row(cfg) == 2

\* add_rate = epochs
add_rate(cfg) == cfg.learning_annealing_epochs

\* remove_rate = epochs - 1.0
remove_rate(cfg) == cfg.learning_annealing_epochs - 2

\* a counter that starts at epochs times a fraction of the rows
initial_state_per_row(cfg) ==
    cfg.learning_annealing_epochs * cfg.learning_annealing_init_rows * num_rows

\* state = epochs * config['learning_annealing_init_rows']
initial_state(cfg) ==
    cfg.learning_annealing_epochs * cfg.learning_annealing_init_rows

sampling_tree(cfg) == cfg.learning_sample_tree_steps > 0

\* the loop test counting only the rows added since the last sample_tree
schedule_running_ignores_stale == num_fresh # num_rows

\* while num_fresh + num_stale != num_rows
schedule_running == num_fresh + num_stale # num_rows

\* a tree resampled after every action that leaves fresh rows
yields_sample_tree_ignores_stale == sampling_tree(config) /\ num_fresh > 0

\* if sampling_tree and num_stale == 0 and num_fresh > 0
yields_sample_tree == sampling_tree(config) /\ num_stale = 0 /\ num_fresh > 0

\* next() of an itertools.cycle over row_ids standing at position pos
cycle_item(pos) == row_ids[pos + 1]

\* a cycle that hands out the same row again
cycle_stuck(pos) == pos

cycle_advance(pos) == (pos + 1) % num_rows

Shuffles(S) ==
    {p \in [1 .. Cardinality(S) -> S] :
        \A i, j \in 1 .. Cardinality(S) : i # j => p[i] # p[j]}

\* ------------------------------------------------------------- np.random
\* The process-wide generator is a counter-free congruential stream: every
\* draw is a function of the generator state, which each draw advances.
RngStates == 0 .. (RngModulus - 1)

rng_step(x) == (5 * x + 3) % RngModulus

\* np.random.seed(seed)
rng_seeded(seed) == (seed + 1) % RngModulus

\* a train() that leaves the generator as it finds it
rng_not_seeded(x) == x

\* np.random.seed(self._config['seed']) at the start of train(); x is the
\* state the generator is found in
rng_at_train_start(x) == rng_seeded(config.seed)

swap(list, i, j) ==
    [k \in DOMAIN list |-> IF k = i THEN list[j] ELSE IF k = j THEN list[i] ELSE list[k]]

RECURSIVE shuffle(_, _, _)
\* np.random.shuffle(row_ids): position i (counted from 1) is swapped with a
\* drawn position at or below it, for i from the last down to the second
shuffle(list, i, x) ==
    IF i <= 1 THEN [list |-> list, rng |-> x]
    ELSE shuffle(swap(list, i, (x % i) + 1), i - 1, rng_step(x))

RECURSIVE rng_draws(_, _, _, _, _)
\* sample_from_probs(message) for each vertex in schedule order.  The index
\* drawn is a function of the generator state and of what the message is
\* computed from: the vertex's counts, the row's cell and the parent's draw.
rng_draws(t, row_id, i, draws, x) ==
    IF i > Len(t.schedule) THEN [draws |-> draws, rng |-> x]
    ELSE LET v == t.schedule[i].v
             parent == t.schedule[i].parent
             above == IF parent = None THEN 0 ELSE draws[parent]
         IN  rng_draws(t, row_id, i + 1,
                       [draws EXCEPT ![v] = ((x \div 2) + t.vert_ss[v][0]
                                             + data[v][row_id][0] + above) % M],
                       rng_step(x))

grid_code(g) == SumOver(EdgeIds, [e \in EdgeIds |-> (g[e][1] * V + g[e][2]) * ((V * V) ^ e)])

grid_rank(g) == Cardinality({h \in TreeGrids : grid_code(h) < grid_code(g)})

\* the tree the resampler returns for the trainer t when the generator stands
\* at x: a function of the generator state, the current tree and the counts
\* behind the edge logits
resampled_grid(t, x) ==
    CHOOSE g \in TreeGrids :
        grid_rank(g) = (x + grid_rank(t.tree_grid) + t.vert_ss[0][0])
                           % Cardinality(TreeGrids)

\* ------------------------------------------------------------ the server
\* Jeffreys priors: 0.5, 0.5 / M, 0.5 / M
vert_prior == Rat(1, 2)
edge_prior == Rat(1, 2 * M)
feat_prior == Rat(1, 2 * M)

make_posterior(suffstats) ==
    LET latent0 == [v \in Vertices |-> [m \in Clusters |->
                       RAdd(vert_prior, <<suffstats.vert_ss[v][m], 1>>)]]
        latent == [v \in Vertices |-> [m \in Clusters |->
                       RDiv(latent0[v][m], RSum(Clusters, latent0[v]))]]
        joint0 == [e \in EdgeIds |-> [p \in Clusters \X Clusters |->
                       RAdd(edge_prior, <<suffstats.edge_ss[e][p[1]][p[2]], 1>>)]]
        latent_latent == [e \in EdgeIds |-> [m1 \in Clusters |-> [m2 \in Clusters |->
                       RDiv(joint0[e][<<m1, m2>>],
                            RSum(Clusters \X Clusters, joint0[e]))]]]
        feat0 == [v \in Vertices |-> [c \in Cats(v) |-> [m \in Clusters |->
                       RAdd(feat_prior, <<suffstats.feat_ss[v][c][m], 1>>)]]]
        observed_latent == [v \in Vertices |-> [c \in Cats(v) |-> [m \in Clusters |->
                       RMul(feat0[v][c][m],
                            RDiv(latent[v][m],
                                 RSum(Cats(v), [d \in Cats(v) |-> feat0[v][d][m]])))]]]
        observed == [v \in Vertices |-> [c \in Cats(v) |->
                       RSum(Clusters, observed_latent[v][c])]]
    IN  [observed |-> observed, observed_latent |-> observed_latent,
         latent |-> latent, latent_latent |-> latent_latent]

\* np.zeros_like(col)
zeros_like(col) == [c \in DOMAIN col |-> 0]

\* a row whose every count is zero, of the shape of the posterior
zero_row == [v \in Vertices |-> [c \in Cats(v) |-> 0]]

\* the observed draw made for every vertex, requested or not
draws_observed_always(counts, v) == TRUE

\* if counts[v]
draws_observed(counts, v) == counts[v] # 0

\* probs = feat_probs[v][:, vert_sample[v]]; probs /= probs.sum()
\* probs is a view of the table, so the division is written into column m.
normalize_column(table, m) ==
    LET total == RSum(DOMAIN table, [c \in DOMAIN table |-> table[c][m]])
    IN  [c \in DOMAIN table |-> [k \in Clusters |->
            IF k = m THEN RDiv(table[c][k], total) ELSE table[c][k]]]

\* The factors whose logarithms the upward pass adds up: one message sum per
\* (vertex, child) pair met in reversed schedule order, then the root's sum.
RECURSIVE upward_factors(_, _)
upward_factors(sched, i) ==
    IF i = 0 THEN <<>>
    ELSE [j \in 1 .. Len(sched[i].children) |->
             <<"message_sum", sched[i].v, sched[i].children[j]>>]
         \o upward_factors(sched, i - 1)

\* _propagate('logprob', data): the messages are private copies, so the
\* server is left as it was; the value returned is kept as its factors.
propagate_logprob(sched, post, row) ==
    [posterior |-> post,
     returned |-> upward_factors(sched, Len(sched))
                  \o << <<"root_sum", sched[1].v>> >>]

\* _propagate('sample', data, counts): vert_sample[v] is the cluster drawn for
\* v (any of them: every message entry is positive) and drawn[v] the outcome
\* of np.random.multinomial(counts[v], probs).
propagate_sample(sched, post, row, counts, vert_sample, drawn) ==
    LET visited == {sched[i].v : i \in DOMAIN sched}
        drawing(v) == v \in visited /\ draws_observed(counts, v)
    IN  [posterior |->
            [post EXCEPT !.observed_latent = [v \in Vertices |->
                IF drawing(v)
                THEN normalize_column(post.observed_latent[v], vert_sample[v])
                ELSE post.observed_latent[v]]],
         returned |->
            [v \in Vertices |->
                IF drawing(v) THEN drawn[v] ELSE zeros_like(row[v])]]

\* every count vector np.random.multinomial(n, probs) can return
Multinomials(v, n) ==
    {f \in [Cats(v) -> 0 .. n] : SumOver(Cats(v), f) = n}

\* The rows a query is made with: the all-zero row and the first training row.
QueryRows == {zero_row, [v \in Vertices |-> data[v][0]]}

\* the counts a sample query may request
Requests == [Vertices -> 0 .. MaxRequest]

\* one outcome of np.random.multinomial per vertex, for the requested counts
Drawn ==
    [counts \in Requests |->
        {f \in [Vertices -> UNION {Multinomials(v, counts[v]) : v \in Vertices}] :
            \A v \in Vertices : f[v] \in Multinomials(v, counts[v])}]

AssignmentPatterns == {1}

\* the clusters drawn for the vertices an observed draw is requested for; the
\* cluster of any other vertex reaches neither the tables nor the value
\* returned and is left at 0
VertSamples ==
    [counts \in Requests |->
        {f \in [Vertices -> Clusters] : \A v \in Vertices : counts[v] = 0 => f[v] = 0}]

RECURSIVE add_rows(_, _, _)
\* add_row for each row of ids, row r drawing cluster (r + v * pattern) % M
add_rows(t, ids, pattern) ==
    IF ids = <<>> THEN t
    ELSE add_rows(add_row(t, Head(ids),
                          [v \in Vertices |-> (Head(ids) + v * pattern) % M]),
                  Tail(ids), pattern)

\* ------------------------------------------ the steps of message passing
\* What a pass does to the message of vertex v, one record per statement:
\* other is the child or parent the statement involves (None if none) and
\* transposed tells whether the edge table is used as trans.T.
Step(op, v, other, transposed) ==
    [op |-> op, v |-> v, other |-> other, transposed |-> transposed]

\* a fold that leaves vert_probs[v] in the message
add_row_fold_keeps_marginal(v, child) ==
    << Step("fold", v, child, v > child),
       Step("div_sum", v, child, FALSE) >>

\* add_row, for one child: fold the child in, divide by vert_probs[v],
\* divide by the sum
add_row_fold(v, child) ==
    << Step("fold", v, child, v > child),
       Step("div_vert", v, child, FALSE),
       Step("div_sum", v, child, FALSE) >>

RECURSIVE add_row_children(_, _)
\* for child in children
add_row_children(v, children) ==
    IF children = <<>> THEN <<>>
    ELSE add_row_fold(v, Head(children)) \o add_row_children(v, Tail(children))

RECURSIVE add_row_upward(_, _)
\* add_row: for v, parent, children in reversed(self._schedule), the entries
\* i, i - 1, ..., 1
add_row_upward(sched, i) ==
    IF i = 0 THEN <<>>
    ELSE << Step("evidence", sched[i].v, None, FALSE) >>
         \o add_row_children(sched[i].v, sched[i].children)
         \o add_row_upward(sched, i - 1)

RECURSIVE add_row_downward(_, _)
\* add_row: for v, parent, children in self._schedule, the entries from i on
add_row_downward(sched, i) ==
    IF i > Len(sched) THEN <<>>
    ELSE LET v == sched[i].v
             parent == sched[i].parent
         IN  (IF parent # None
              THEN << Step("edge_column", v, parent, parent > v),
                      Step("div_vert", v, parent, FALSE) >>
              ELSE <<>>)
             \o << Step("div_sum", v, None, FALSE), Step("draw", v, None, FALSE) >>
             \o add_row_downward(sched, i + 1)

\* a serving pass that adds no logarithm for the sums it divides out
propagate_fold_drops_log(v, child) ==
    << Step("fold", v, child, v > child),
       Step("div_vert", v, child, FALSE),
       Step("div_sum", v, child, FALSE) >>

\* _propagate, for one child: fold the child in, divide by vert_probs[v],
\* divide by message_sum, add log(message_sum) to logprob
propagate_fold(v, child) ==
    << Step("fold", v, child, v > child),
       Step("div_vert", v, child, FALSE),
       Step("div_sum", v, child, FALSE),
       Step("log_sum", v, child, FALSE) >>

RECURSIVE propagate_children(_, _)
\* for child in children
propagate_children(v, children) ==
    IF children = <<>> THEN <<>>
    ELSE propagate_fold(v, Head(children)) \o propagate_children(v, Tail(children))

RECURSIVE propagate_upward(_, _)
\* _propagate: for v, parent, children in reversed(self._schedule)
propagate_upward(sched, i) ==
    IF i = 0 THEN <<>>
    ELSE << Step("evidence", sched[i].v, None, FALSE) >>
         \o propagate_children(sched[i].v, sched[i].children)
         \o propagate_upward(sched, i - 1)

\* _propagate, task == 'logprob': logprob += np.log(messages[root, :].sum())
propagate_root(sched) == << Step("log_sum", sched[1].v, None, FALSE) >>

RECURSIVE propagate_downward(_, _)
\* _propagate, task == 'sample': for v, parent, children in self._schedule,
\* up to the categorical draw
propagate_downward(sched, i) ==
    IF i > Len(sched) THEN <<>>
    ELSE LET v == sched[i].v
             parent == sched[i].parent
         IN  (IF parent # None
              THEN << Step("edge_column", v, parent, parent > v) >>
              ELSE <<>>)
             \o << Step("div_sum", v, None, FALSE), Step("draw", v, None, FALSE) >>
             \o propagate_downward(sched, i + 1)

\* -------------------------------------------------------- initial states
DataSeeds == {1, 2}

Datasets(n) ==
    {[v \in Vertices |-> [r \in 0 .. (n - 1) |-> [c \in Cats(v) |->
        (r + v + c + k) % (MaxCount + 1)]]] : k \in DataSeeds}

\* What the statistics were before add_row(row), kept while only add_row(row)
\* ("added") and then remove_row(row) ("removed") have run since.
NoUndo == [stage |-> "none"]

Snapshot(stage, row) ==
    [stage |-> stage, row |-> row, assigned_rows |-> assigned_rows,
     vert_ss |-> vert_ss, edge_ss |-> edge_ss, feat_ss |-> feat_ss]

\* The trainer variables hold the trainer t, on which nothing was called yet.
Holds(t) ==
    /\ assigned_rows = t.assigned_rows
    /\ assignments = t.assignments
    /\ vert_ss = t.vert_ss
    /\ edge_ss = t.edge_ss
    /\ feat_ss = t.feat_ss
    /\ tree_grid = t.tree_grid
    /\ schedule = t.schedule
    /\ raised = t.raised
    /\ edge_logits = t.edge_logits
    /\ call = <<"init", None>>
    /\ undo = NoUndo

\* TreeCatTrainer(data, config) for n rows, the tree starting as grid
Fresh(n, grid) == Holds(fresh_trainer(n, grid))

\* TreeCatTrainer(data, config)
TrainerInit ==
    /\ num_rows \in 1 .. MaxRows
    /\ data \in Datasets(num_rows)
    /\ \E grid \in TreeGrids : Fresh(num_rows, grid)

\* No train() is running.
TrainIdle ==
    /\ config \in {c \in Configs :
                     /\ c.learning_annealing_epochs = 2
                     /\ c.learning_annealing_init_rows = 0
                     /\ c.learning_sample_tree_steps = 1
                     /\ c.seed = 0}
    /\ pc = "idle"
    /\ row_ids = <<>>
    /\ add_pos = 0
    /\ remove_pos = 0
    /\ state = 0
    /\ num_fresh = 0
    /\ num_stale = 0
    /\ actions = <<>>
    /\ rng = 0
    /\ first_run = <<>>

\* No server has been built.
NoServer ==
    /\ posterior = <<>>
    /\ built = <<>>
    /\ server_schedule = <<>>
    /\ query = <<>>
    /\ result = <<>>

\* ------------------------------------------- direct calls of the trainer
Install(t) ==
    /\ assigned_rows' = t.assigned_rows
    /\ assignments' = t.assignments
    /\ vert_ss' = t.vert_ss
    /\ edge_ss' = t.edge_ss
    /\ feat_ss' = t.feat_ss
    /\ tree_grid' = t.tree_grid
    /\ schedule' = t.schedule
    /\ raised' = t.raised
    /\ edge_logits' = t.edge_logits

DoAddRow(row_id, draws) ==
    /\ Install(add_row(Self, row_id, draws))
    /\ call' = <<"add_row", row_id>>
    /\ undo' = IF raised' = "ok" THEN Snapshot("added", row_id) ELSE NoUndo
    /\ UNCHANGED <<num_rows, data>>

DoRemoveRow(row_id) ==
    /\ Install(remove_row(Self, row_id))
    /\ call' = <<"remove_row", row_id>>
    /\ undo' = IF raised' = "ok" /\ undo.stage = "added" /\ undo.row = row_id
               THEN [undo EXCEPT !.stage = "removed"]
               ELSE NoUndo
    /\ UNCHANGED <<num_rows, data>>

DoSampleTree(new_grid) ==
    /\ Install(sample_tree(Self, new_grid))
    /\ call' = <<"sample_tree", None>>
    /\ undo' = NoUndo
    /\ UNCHANGED <<num_rows, data>>

\* The three operations called directly, in any order, with any argument.
AddRow ==
    \E row_id \in Rows, draws \in [Vertices -> Clusters] :
        DoAddRow(row_id, draws) /\ UNCHANGED <<train_vars, server_vars>>

RemoveRow ==
    \E row_id \in Rows : DoRemoveRow(row_id) /\ UNCHANGED <<train_vars, server_vars>>

SampleTree ==
    \E new_grid \in TreeGrids :
        DoSampleTree(new_grid) /\ UNCHANGED <<train_vars, server_vars>>

Init == TrainerInit /\ TrainIdle /\ NoServer

Next == AddRow \/ RemoveRow \/ SampleTree

Spec == Init /\ [][Next]_vars

\* --------------------------------------------------------------- train()
\* train() seeds the generator and get_annealing_schedule shuffles the rows:
\* perm is the shuffled list, x the generator state afterwards.
TrainStartWith(perm, x) ==
    /\ pc = "start"
    /\ row_ids' = perm
    /\ add_pos' = 0
    /\ remove_pos' = 0
    /\ state' = initial_state(config)
    /\ num_fresh' = 0
    /\ num_stale' = 0
    /\ rng' = x
    /\ pc' = "loop"
    /\ UNCHANGED <<trainer_vars, config, actions, first_run, server_vars>>

\* yield 'add_row', next(row_to_add), consumed by train()
TrainAddWith(draws, x) ==
    /\ pc = "loop"
    /\ schedule_running
    /\ state >= 0
    /\ DoAddRow(cycle_item(add_pos), draws)
    /\ actions' = Append(actions, <<"add_row", cycle_item(add_pos)>>)
    /\ add_pos' = cycle_advance(add_pos)
    /\ rng' = x
    /\ IF raised' = "ok"
       THEN /\ state' = state - remove_rate(config)
            /\ num_fresh' = num_fresh + 1
            /\ pc' = "tree"
       ELSE /\ pc' = "failed"
            /\ UNCHANGED <<state, num_fresh>>
    /\ UNCHANGED <<config, row_ids, remove_pos, num_stale, first_run, server_vars>>

\* yield 'remove_row', next(row_to_remove), consumed by train()
TrainRemove ==
    /\ pc = "loop"
    /\ schedule_running
    /\ state < 0
    /\ DoRemoveRow(cycle_item(remove_pos))
    /\ actions' = Append(actions, <<"remove_row", cycle_item(remove_pos)>>)
    /\ remove_pos' = cycle_advance(remove_pos)
    /\ IF raised' = "ok"
       THEN /\ state' = state + add_rate(config)
            /\ num_stale' = num_stale - 1
            /\ pc' = "tree"
       ELSE /\ pc' = "failed"
            /\ UNCHANGED <<state, num_stale>>
    /\ UNCHANGED <<config, row_ids, add_pos, num_fresh, rng, first_run, server_vars>>

\* yield 'sample_tree', None, consumed by train()
TrainSampleTreeWith(new_grid, x) ==
    /\ pc = "tree"
    /\ yields_sample_tree
    /\ DoSampleTree(new_grid)
    /\ actions' = Append(actions, <<"sample_tree", None>>)
    /\ num_stale' = num_fresh
    /\ num_fresh' = 0
    /\ rng' = x
    /\ pc' = "loop"
    /\ UNCHANGED <<config, row_ids, add_pos, remove_pos, state, first_run,
                   server_vars>>

\* the batch is not over: back to the loop test without a yield
TrainNoSampleTree ==
    /\ pc = "tree"
    /\ ~yields_sample_tree
    /\ pc' = "loop"
    /\ UNCHANGED <<trainer_vars, config, row_ids, add_pos, remove_pos, state,
                   num_fresh, num_stale, actions, rng, first_run, server_vars>>

\* the generator is exhausted: finish() and return
TrainFinish ==
    /\ pc = "loop"
    /\ ~schedule_running
    /\ pc' = "done"
    /\ UNCHANGED <<trainer_vars, config, row_ids, add_pos, remove_pos, state,
                   num_fresh, num_stale, actions, rng, first_run, server_vars>>

\* One call of train() on a fresh trainer; every random draw may come out
\* any way.
TrainInit ==
    /\ TrainerInit
    /\ config \in {c \in Configs : c.seed = 0}
    /\ pc = "start"
    /\ row_ids = <<>>
    /\ add_pos = 0
    /\ remove_pos = 0
    /\ state = 0
    /\ num_fresh = 0
    /\ num_stale = 0
    /\ actions = <<>>
    /\ rng = 0
    /\ first_run = <<>>
    /\ NoServer

TrainStart == \E perm \in Shuffles(Rows) : TrainStartWith(perm, rng)

TrainAdd == \E draws \in [Vertices -> Clusters] : TrainAddWith(draws, rng)

TrainSampleTree == \E new_grid \in TreeGrids : TrainSampleTreeWith(new_grid, rng)

TrainNext ==
    \/ TrainStart
    \/ TrainAdd
    \/ TrainRemove
    \/ TrainSampleTree
    \/ TrainNoSampleTree
    \/ TrainFinish

\* train() is one sequential loop: it takes its next step whenever it has one.
SpecTrain == TrainInit /\ [][TrainNext]_vars /\ WF_vars(TrainNext)

\* ----------------------------------------- train() twice, with np.random
\* The first of two train() calls on fresh trainers with the same data and
\* config; the generator may be in any state when it starts.
SeededInit ==
    /\ num_rows \in 1 .. MaxRows
    /\ data \in Datasets(num_rows)
    /\ \E grid \in ServedGrids :
          /\ Fresh(num_rows, grid)
          /\ first_run = [run |-> 1, tree_grid |-> grid]
    /\ config \in Configs
    /\ pc = "start"
    /\ row_ids = <<>>
    /\ add_pos = 0
    /\ remove_pos = 0
    /\ state = 0
    /\ num_fresh = 0
    /\ num_stale = 0
    /\ actions = <<>>
    /\ rng \in RngStates
    /\ NoServer

SeededStart ==
    LET out == shuffle(sorted(Rows), num_rows, rng_at_train_start(rng))
    IN  TrainStartWith(out.list, out.rng)

SeededAdd ==
    LET out == rng_draws(Self, cycle_item(add_pos), 1, [v \in Vertices |-> 0], rng)
    IN  TrainAddWith(out.draws, out.rng)

SeededSampleTree == TrainSampleTreeWith(resampled_grid(Self, rng), rng_step(rng))

\* What train() returned, with the actions it consumed.
Returned ==
    [run |-> 2, actions |-> actions, assignments |-> assignments,
     assigned_rows |-> assigned_rows, vert_ss |-> vert_ss, edge_ss |-> edge_ss,
     feat_ss |-> feat_ss, tree_grid |-> tree_grid]

\* train() on a second fresh trainer built from the same data and config, in
\* the same process: the generator is where the first run left it.
TrainAgain ==
    /\ pc = "done"
    /\ first_run.run = 1
    /\ first_run' = Returned
    /\ Install(fresh_trainer(num_rows, first_run.tree_grid))
    /\ call' = <<"init", None>>
    /\ undo' = NoUndo
    /\ pc' = "start"
    /\ row_ids' = <<>>
    /\ add_pos' = 0
    /\ remove_pos' = 0
    /\ state' = 0
    /\ num_fresh' = 0
    /\ num_stale' = 0
    /\ actions' = <<>>
    /\ UNCHANGED <<num_rows, data, config, rng, server_vars>>

SeededNext ==
    \/ SeededStart
    \/ SeededAdd
    \/ TrainRemove
    \/ SeededSampleTree
    \/ TrainNoSampleTree
    \/ TrainFinish
    \/ TrainAgain

SpecSeeded == SeededInit /\ [][SeededNext]_vars

\* --------------------------------------------------- queries of a server
\* serve_model(tree, suffstats, config) on what a trainer holds once every
\* row is assigned
ServerInit ==
    /\ num_rows = MaxRows
    /\ data \in Datasets(num_rows)
    /\ \E grid \in ServedGrids, pattern \in AssignmentPatterns :
          LET t == add_rows(fresh_trainer(num_rows, grid),
                            sorted(0 .. (num_rows - 1)), pattern)
          IN  Holds(t)
    /\ TrainIdle
    /\ posterior = make_posterior([vert_ss |-> vert_ss, edge_ss |-> edge_ss,
                                   feat_ss |-> feat_ss])
    /\ built = posterior
    /\ server_schedule = make_propagation_schedule(tree_grid)
    /\ query = <<>>
    /\ result = <<>>

Logprob ==
    \E row \in QueryRows :
        LET out == propagate_logprob(server_schedule, posterior, row)
        IN  /\ posterior' = out.posterior
            /\ result' = out.returned
            /\ query' = <<"logprob", row, <<>> >>
            /\ UNCHANGED <<trainer_vars, train_vars, built, server_schedule>>

Sample ==
    \E row \in QueryRows, counts \in Requests :
        \E vert_sample \in VertSamples[counts], drawn \in Drawn[counts] :
            /\ LET out == propagate_sample(server_schedule, posterior, row, counts,
                                           vert_sample, drawn)
               IN  /\ posterior' = out.posterior
                   /\ result' = out.returned
            /\ query' = <<"sample", row, counts>>
            /\ UNCHANGED <<trainer_vars, train_vars, built, server_schedule>>

ServerNext == Logprob \/ Sample

SpecServer == ServerInit /\ [][ServerNext]_vars

\* ------------------------------------------- train() over longer schedules
\* One call of train() on a fresh trainer of up to MaxAnnealRows rows.  The
\* schedule reads neither the clusters add_row draws nor the trees sample_tree
\* installs, so the draws are fixed and the trees kept to ServedGrids.
AnnealInit ==
    /\ num_rows \in 1 .. MaxAnnealRows
    /\ data \in Datasets(num_rows)
    /\ \E grid \in ServedGrids : Fresh(num_rows, grid)
    /\ config \in {c \in Configs : c.seed = 0}
    /\ pc = "start"
    /\ row_ids = <<>>
    /\ add_pos = 0
    /\ remove_pos = 0
    /\ state = 0
    /\ num_fresh = 0
    /\ num_stale = 0
    /\ actions = <<>>
    /\ rng = 0
    /\ first_run = <<>>
    /\ NoServer

AnnealStart == \E perm \in Shuffles(Rows) : TrainStartWith(perm, rng)

AnnealAdd ==
    TrainAddWith([v \in Vertices |-> (cycle_item(add_pos) + v) % M], rng)

AnnealSampleTree == \E new_grid \in ServedGrids : TrainSampleTreeWith(new_grid, rng)

AnnealNext ==
    \/ AnnealStart
    \/ AnnealAdd
    \/ TrainRemove
    \/ AnnealSampleTree
    \/ TrainNoSampleTree
    \/ TrainFinish

SpecAnneal == AnnealInit /\ [][AnnealNext]_vars

\* ------------------------------------ a server beside its trainer
\* self.tree.find_tree_edge[v1, v2]: the id of the edge between v1 and v2 in
\* the tree with the given grid, None when the tree has no such edge
find_tree_edge(grid, v1, v2) ==
    LET ids == {e \in DOMAIN grid : grid[e] = <<v1, v2>> \/ grid[e] = <<v2, v1>>}
    IN  IF ids = {} THEN None ELSE CHOOSE e \in ids : TRUE

\* The edge ids a query of the server looks up: for each (vertex, child) pair
\* of its schedule, find_tree_edge of self._tree, which is the very
\* TreeStructure the trainer holds as self.tree and whose grid is tree_grid.
served_edges ==
    [i \in DOMAIN server_schedule |->
        [c \in DOMAIN server_schedule[i].children |->
            find_tree_edge(tree_grid, server_schedule[i].v,
                           server_schedule[i].children[c])]]

\* sample(cond_data, counts) with counts all zero
SampleNothing ==
    \E row \in QueryRows :
        LET counts == [v \in Vertices |-> 0]
            out == propagate_sample(server_schedule, posterior, row, counts,
                                    counts, zero_row)
        IN  /\ posterior' = out.posterior
            /\ result' = out.returned
            /\ query' = <<"sample", row, counts>>
            /\ UNCHANGED <<trainer_vars, train_vars, built, server_schedule>>

\* add_row called on the trainer again; the clusters it draws reach neither
\* the tree nor the server and are fixed to (row_id + v) % M
AddRowAgain ==
    \E row_id \in Rows :
        /\ DoAddRow(row_id, [v \in Vertices |-> (row_id + v) % M])
        /\ UNCHANGED <<train_vars, server_vars>>

\* A server built from a trainer's tree and suffstats; the trainer goes on
\* being used while the server answers queries.
SharedNext ==
    \/ AddRowAgain
    \/ RemoveRow
    \/ SampleTree
    \/ Logprob
    \/ SampleNothing

SpecShared == ServerInit /\ [][SharedNext]_vars

\* ---------------------------------------------------------------- claims
ZeroVector == [v \in Vertices |-> 0]

\* C1: in every state reached by add_row, remove_row and sample_tree calls,
\* vert_ss, edge_ss (for the edges of the current tree) and feat_ss are the
\* exact tallies over the assigned rows and over no other row.
C1_ExactTally ==
    /\ \A v \in Vertices, m \in Clusters :
          vert_ss[v][m] =
              Cardinality({r \in assigned_rows : assignments[r][v] = m})
    /\ \A e \in EdgeIds, m1 \in Clusters, m2 \in Clusters :
          edge_ss[e][m1][m2] =
              Cardinality({r \in assigned_rows :
                              /\ assignments[r][tree_grid[e][1]] = m1
                              /\ assignments[r][tree_grid[e][2]] = m2})
    /\ \A v \in Vertices, m \in Clusters :
          \A c \in Cats(v) :
              feat_ss[v][c][m] =
                  SumOver({r \in assigned_rows : assignments[r][v] = m},
                          [r \in Rows |-> data[v][r][c]])

\* every row assigned, a tree just resampled, two rows sharing a feature cell
C1_Witness ==
    /\ num_rows = MaxRows
    /\ assigned_rows = Rows
    /\ call[1] = "sample_tree"
    /\ \E v \in Vertices, m \in Clusters : vert_ss[v][m] >= 2
    /\ \E e \in EdgeIds, m1 \in Clusters, m2 \in Clusters :
          m1 # m2 /\ edge_ss[e][m1][m2] >= 1
    /\ \E v \in Vertices, m \in Clusters : \E c \in Cats(v) : feat_ss[v][c][m] >= 2

\* C2: after any sequence of logprob and sample queries, every entry of the
\* four posterior tables equals its value right after construction.
C2_PosteriorNeverModified == posterior = built

Count(name) == Cardinality({i \in DOMAIN actions : actions[i][1] = name})

\* C3: get_annealing_schedule ends after finitely many actions (fewer than
\* epochs * (num_rows + 1) add_row, no more remove_row or sample_tree than
\* add_row, and never a failed or stuck step), having yielded exactly
\* num_rows more add_row than remove_row, and train() then returns with every
\* row assigned.
C3_ScheduleTerminates ==
    /\ pc \in {"start", "loop", "tree", "done"}
    /\ 2 * Count("add_row") < config.learning_annealing_epochs * (num_rows + 1)
    /\ Count("remove_row") <= Count("add_row")
    /\ Count("sample_tree") <= Count("add_row")
    /\ pc = "done" =>
            /\ Count("add_row") - Count("remove_row") = num_rows
            /\ assigned_rows = Rows

\* a finished run over the largest dataset that removed rows and resampled
C3_Witness ==
    /\ pc = "done"
    /\ num_rows = MaxRows
    /\ Count("remove_row") >= 2
    /\ Count("sample_tree") >= 2

\* C4: add_row(r) immediately followed by remove_row(r) restores vert_ss,
\* edge_ss, feat_ss and the assigned-row set to their values before the add.
C4_AddThenRemoveRestores ==
    undo.stage = "removed" =>
        /\ vert_ss = undo.vert_ss
        /\ edge_ss = undo.edge_ss
        /\ feat_ss = undo.feat_ss
        /\ assigned_rows = undo.assigned_rows

\* a row was added with a non-zero assignment and data, then removed, while
\* another row stayed assigned
C4_Witness ==
    /\ undo.stage = "removed"
    /\ assigned_rows # {}
    /\ assignments[undo.row] # ZeroVector
    /\ \E v \in Vertices : \E c \in Cats(v) : data[v][undo.row][c] > 0

Core == <<assigned_rows, assignments, vert_ss, edge_ss, feat_ss, tree_grid, schedule>>

\* C5: add_row of an assigned row and remove_row of an unassigned row raise,
\* and leave the assigned set, the assignment matrix, the three statistics,
\* the tree and the schedule as they were.
C5_ContractViolationsFail ==
    [][\A r \in Rows :
        /\ (call' = <<"add_row", r>> /\ r \in assigned_rows)
              => (raised' = "AssertionError" /\ UNCHANGED Core)
        /\ (call' = <<"remove_row", r>> /\ r \notin assigned_rows)
              => (raised' = "AssertionError" /\ UNCHANGED Core)]_vars

\* a re-add of an assigned row has just been refused
C5_Witness ==
    /\ raised = "AssertionError"
    /\ call[1] = "add_row"
    /\ call[2] \in assigned_rows
    /\ assignments[call[2]] # ZeroVector

ZeroRequest == [v \in Vertices |-> 0]

\* C6: sample with all-zero cond_data and all-zero counts returns an all-zero
\* array of the shape of cond_data[v] for every vertex v, and leaves the
\* posterior tables as they were.
C6_ZeroSampleIsNeutral ==
    [][query' = <<"sample", zero_row, ZeroRequest>> =>
          /\ \A v \in Vertices :
                /\ DOMAIN result'[v] = DOMAIN zero_row[v]
                /\ \A c \in Cats(v) : result'[v][c] = 0
          /\ posterior' = posterior]_vars

\* an all-zero sample answered by a server that has answered other queries
C6_Witness ==
    /\ query = <<"sample", zero_row, ZeroRequest>>
    /\ result = zero_row
    /\ posterior # built

RECURSIVE replay(_, _)
\* add the rows of ids, in order, to the statistics of t
replay(t, ids) ==
    IF ids = <<>> THEN t
    ELSE replay(update_tensors(t, Head(ids), 1), Tail(ids))

\* The statistics of a trainer with the current tree and assignment vectors
\* to which each assigned row was added once, in ascending order.
Replayed ==
    replay([Self EXCEPT
                !.vert_ss = [v \in Vertices |-> [m \in Clusters |-> 0]],
                !.edge_ss = [e \in EdgeIds |-> [m1 \in Clusters |-> [m2 \in Clusters |-> 0]]],
                !.feat_ss = [v \in Vertices |-> [c \in Cats(v) |-> [m \in Clusters |-> 0]]]],
           sorted(assigned_rows))

\* C7: the statistics do not depend on the history: whatever adds and
\* removes led to the current assigned set and its assignment vectors, the
\* statistics are those of the history that adds each assigned row once.
C7_HistoryIndependent ==
    /\ vert_ss = Replayed.vert_ss
    /\ edge_ss = Replayed.edge_ss
    /\ feat_ss = Replayed.feat_ss

\* a row has been added, removed and left out while another one is assigned
C7_Witness ==
    /\ call[1] = "remove_row"
    /\ raised = "ok"
    /\ assigned_rows # {}
    /\ \E r \in Rows \ assigned_rows : assignments[r] # ZeroVector

\* C8: remove_row and sample_tree leave the assignment matrix unchanged,
\* add_row(r) changes no row but r, and a row's vector is constant while the
\* row stays assigned.
C8_AssignmentsFrame ==
    [][/\ call'[1] \in {"remove_row", "sample_tree"} => assignments' = assignments
       /\ call'[1] = "add_row" =>
             \A r \in Rows \ {call'[2]} : assignments'[r] = assignments[r]
       /\ \A r \in assigned_rows \cap assigned_rows' :
             assignments'[r] = assignments[r]]_vars

\* a removed row still holds the vector its add_row drew
C8_Witness ==
    /\ call[1] = "remove_row"
    /\ raised = "ok"
    /\ call[2] \notin assigned_rows
    /\ assignments[call[2]] # ZeroVector

\* C9: two runs of train() on fresh trainers with the same data, config and
\* seed, all draws coming from the generator train() seeds, yield the same
\* actions and end with the same assignment matrix, assigned set, statistics
\* and tree.
C9_SeededRunsAgree ==
    first_run.run = 2 =>
        /\ Len(actions) <= Len(first_run.actions)
        /\ \A i \in DOMAIN actions : actions[i] = first_run.actions[i]
        /\ pc = "done" =>
              /\ actions = first_run.actions
              /\ assignments = first_run.assignments
              /\ assigned_rows = first_run.assigned_rows
              /\ vert_ss = first_run.vert_ss
              /\ edge_ss = first_run.edge_ss
              /\ feat_ss = first_run.feat_ss
              /\ tree_grid = first_run.tree_grid

\* a second run over every row that has finished after removing rows and
\* resampling the tree twice
C9_Witness ==
    /\ first_run.run = 2
    /\ pc = "done"
    /\ num_rows = MaxRows
    /\ Count("remove_row") >= 1
    /\ Count("sample_tree") >= 2
    /\ \E r \in Rows : assignments[r] # ZeroVector

\* C10: the weight sample_tree hands over at index k is the score of the
\* k-th pair of the complete graph, for every k < K.
C10_EveryCandidateWeighted ==
    call[1] = "sample_tree" =>
        \A k \in CompleteIds :
            edge_logits[k] = edge_logit(Self, complete_grid[k][1], complete_grid[k][2])

\* add_row minus remove_row among the first i actions yielded
NetAdds(i) ==
    Cardinality({j \in 1 .. i : actions[j][1] = "add_row"})
        - Cardinality({j \in 1 .. i : actions[j][1] = "remove_row"})

\* C11 as written: the schedule stops at the first point where the add_row and
\* remove_row actions yielded so far number num_rows together, and not before.
C11_StopsAtAddsPlusRemoves ==
    /\ pc = "done" => Count("add_row") + Count("remove_row") = num_rows
    /\ pc = "loop" /\ Count("add_row") + Count("remove_row") = num_rows
           => ~schedule_running

\* C11, amended: the schedule stops at the first point where the add_row
\* actions yielded outnumber the remove_row actions by num_rows, and not
\* before: the loop test passes exactly while the difference is not num_rows,
\* no add_row or remove_row is yielded once it is, and it is num_rows at the
\* end.
C11_StopsAtNetAdds ==
    /\ pc = "loop" => (schedule_running <=> NetAdds(Len(actions)) # num_rows)
    /\ \A i \in DOMAIN actions :
          actions[i][1] # "sample_tree" => NetAdds(i - 1) # num_rows
    /\ pc = "done" => NetAdds(Len(actions)) = num_rows

\* a finished run in which rows were removed, so that add_row and remove_row
\* together passed num_rows long before the end
C11_Witness ==
    /\ pc = "done"
    /\ num_rows = MaxRows
    /\ Count("remove_row") >= 1
    /\ Count("add_row") + Count("remove_row") > num_rows + 1

\* the positions of the steps of kind op made on the message of v
StepsAt(steps, op, v) == {i \in DOMAIN steps : steps[i].op = op /\ steps[i].v = v}

\* v is divided by its marginal and by its sum once, after its evidence and
\* all its children were folded in
OncePerVertex(steps, v) ==
    /\ Cardinality(StepsAt(steps, "div_vert", v)) = 1
    /\ Cardinality(StepsAt(steps, "div_sum", v)) = 1
    /\ \A i \in StepsAt(steps, "div_vert", v) :
          /\ steps[i + 1].op = "div_sum" /\ steps[i + 1].v = v
          /\ \A j \in StepsAt(steps, "evidence", v) \cup StepsAt(steps, "fold", v) :
                j < i

\* v is divided by its marginal and by its sum once for each of its children,
\* right after that child was folded in, its evidence having come first
OncePerChild(steps, v, children) ==
    /\ Cardinality(StepsAt(steps, "div_vert", v)) = Len(children)
    /\ Cardinality(StepsAt(steps, "div_sum", v)) = Len(children)
    /\ Cardinality(StepsAt(steps, "fold", v)) = Len(children)
    /\ Cardinality(StepsAt(steps, "evidence", v)) = 1
    /\ \A c \in DOMAIN children :
          \E i \in StepsAt(steps, "fold", v) :
              /\ steps[i].other = children[c]
              /\ steps[i + 1].op = "div_vert" /\ steps[i + 1].v = v
              /\ steps[i + 2].op = "div_sum" /\ steps[i + 2].v = v
              /\ \A j \in StepsAt(steps, "evidence", v) : j < i

\* the upward pass add_row makes with the trainer's schedule, and the one a
\* query makes with the server's
TrainerUpward == add_row_upward(schedule, Len(schedule))
ServerUpward == propagate_upward(server_schedule, Len(server_schedule))

\* C12 as written: in the upward pass every vertex of the schedule has its
\* message divided by its vertex-marginal table and renormalized exactly once,
\* after its evidence and all its children were folded in, and the log of the
\* removed sum is added once per vertex.
C12_NormalizedOncePerVertex ==
    query # <<>> =>
        /\ \A v \in Vertices : OncePerVertex(TrainerUpward, v)
        /\ \A v \in Vertices :
              /\ OncePerVertex(ServerUpward, v)
              /\ Cardinality(StepsAt(ServerUpward, "log_sum", v)) = 1

\* C12, amended: in the upward pass a vertex's message is divided by its
\* vertex-marginal table and renormalized once per child, right after that
\* child is folded in and after the vertex's evidence: a vertex with c children
\* c times, a leaf never.  A served query adds the log of the removed sum once
\* per such renormalization; add_row adds none.
C12_NormalizedOncePerChild ==
    query # <<>> =>
        /\ \A i \in DOMAIN schedule :
              OncePerChild(TrainerUpward, schedule[i].v, schedule[i].children)
        /\ \A i \in DOMAIN TrainerUpward : TrainerUpward[i].op # "log_sum"
        /\ \A i \in DOMAIN server_schedule :
              /\ OncePerChild(ServerUpward, server_schedule[i].v,
                              server_schedule[i].children)
              /\ Cardinality(StepsAt(ServerUpward, "log_sum", server_schedule[i].v))
                    = Len(server_schedule[i].children)

\* a query answered over a tree whose root has two children, the trainer
\* having added every row
C12_Witness ==
    /\ query # <<>>
    /\ assigned_rows = Rows
    /\ Len(server_schedule[1].children) = 2
    /\ Len(schedule[1].children) = 2

\* every statement a logprob query makes on the messages, in order
LogprobSteps == ServerUpward \o propagate_root(server_schedule)

\* the factor a step divides out or takes the logarithm of, as the value
\* returned names it
Factor(step) ==
    IF step.other = None THEN <<"root_sum", step.v>>
    ELSE <<"message_sum", step.v, step.other>>

\* how many times the value returned holds the factor f
Occurrences(f) == Cardinality({i \in DOMAIN result : result[i] = f})

\* C13: in a served logprob query every sum divided out of a message in the
\* upward pass has its log added to the value returned exactly once, right
\* where it is divided out, the root's final sum is added once, and nothing
\* else is added.
C13_FactorsAccumulatedOnce ==
    (query # <<>> /\ query[1] = "logprob") =>
        /\ \A i \in DOMAIN LogprobSteps :
              LogprobSteps[i].op = "div_sum" =>
                  /\ LogprobSteps[i + 1].op = "log_sum"
                  /\ Factor(LogprobSteps[i + 1]) = Factor(LogprobSteps[i])
                  /\ Occurrences(Factor(LogprobSteps[i])) = 1
        /\ \A i \in DOMAIN LogprobSteps :
              LogprobSteps[i].op = "log_sum" =>
                  \/ /\ i = Len(LogprobSteps)
                     /\ Factor(LogprobSteps[i]) = <<"root_sum", server_schedule[1].v>>
                  \/ /\ i > 1
                     /\ LogprobSteps[i - 1].op = "div_sum"
                     /\ Factor(LogprobSteps[i - 1]) = Factor(LogprobSteps[i])
        /\ Occurrences(<<"root_sum", server_schedule[1].v>>) = 1
        /\ Len(result)
              = Cardinality({i \in DOMAIN LogprobSteps : LogprobSteps[i].op = "div_sum"}) + 1

\* the log probability of a training row over a path: the root's only child
\* has a child of its own
C13_Witness ==
    /\ query # <<>>
    /\ query[1] = "logprob"
    /\ query[2] # zero_row
    /\ Len(server_schedule[1].children) = 1
    /\ Len(result) = V

\* the downward pass add_row makes with the trainer's schedule, and the one a
\* sample query makes with the server's
TrainerDownward == add_row_downward(schedule, 1)
ServerDownward == propagate_downward(server_schedule, 1)

\* Before its draw, the message of the non-root vertex v with parent p is
\* multiplied by the edge column that p's cluster selects (transposed when
\* p > v), divided by v's marginal and renormalized, p being drawn before.
DownwardStep(steps, v, p) ==
    \E i \in StepsAt(steps, "edge_column", v) :
        /\ steps[i] = Step("edge_column", v, p, p > v)
        /\ steps[i + 1] = Step("div_vert", v, p, FALSE)
        /\ steps[i + 2] = Step("div_sum", v, None, FALSE)
        /\ steps[i + 3] = Step("draw", v, None, FALSE)
        /\ \E j \in StepsAt(steps, "draw", p) : j < i

\* C14: the downward pass is the same in training and serving: for every
\* non-root vertex both multiply its retained message by the edge column of
\* the parent's drawn cluster, divide by the vertex marginal and renormalize
\* before the draw, the parent being drawn first.
C14_DownwardPassShared ==
    (query # <<>> /\ query[1] = "sample") =>
        /\ \A i \in DOMAIN schedule :
              schedule[i].parent # None =>
                  DownwardStep(TrainerDownward, schedule[i].v, schedule[i].parent)
        /\ \A i \in DOMAIN server_schedule :
              server_schedule[i].parent # None =>
                  DownwardStep(ServerDownward, server_schedule[i].v,
                               server_schedule[i].parent)
        /\ (schedule = server_schedule => TrainerDownward = ServerDownward)

\* the position of the last add_row of row r among the actions yielded
LastAdd(r) ==
    CHOOSE i \in DOMAIN actions :
        /\ actions[i] = <<"add_row", r>>
        /\ \A j \in DOMAIN actions : actions[j] = <<"add_row", r>> => j <= i

\* the action this step of train() consumes, if it consumes one
Yielded == actions'[Len(actions')]

\* C15: every action the schedule emits meets the precondition of the trainer
\* operation it drives: add_row(r) comes only while r is unassigned,
\* remove_row(r) only while r is assigned and assigned longer than any other
\* row, the assigned rows stay between 0 and num_rows, and train() never ends
\* in an assertion.
C15_ActionsMeetPreconditions ==
    [][Len(actions') = Len(actions) + 1 =>
          /\ Yielded[1] = "add_row" => Yielded[2] \notin assigned_rows
          /\ Yielded[1] = "remove_row" =>
                /\ Yielded[2] \in assigned_rows
                /\ \A q \in assigned_rows \ {Yielded[2]} :
                      LastAdd(Yielded[2]) < LastAdd(q)
          /\ raised' = "ok"
          /\ pc' # "failed"
          /\ assigned_rows' \subseteq Rows
          /\ Cardinality(assigned_rows') <= num_rows]_vars

\* a row removed while two other rows are assigned, the removing cycle having
\* come round to the first row again
C15_Witness ==
    /\ call[1] = "remove_row"
    /\ raised = "ok"
    /\ Cardinality(assigned_rows) >= 2
    /\ Count("remove_row") > num_rows

\* the position of the last sample_tree among the first n of acts, 0 if none
LastSampleTree(acts, n) ==
    LET at == {i \in 1 .. n : acts[i][1] = "sample_tree"}
    IN  IF at = {} THEN 0 ELSE CHOOSE i \in at : \A j \in at : j <= i

\* the rows add_row was yielded for between the last two sample_tree of acts,
\* acts ending with a sample_tree
AddedSincePrevious(acts) ==
    {acts[j][2] : j \in {i \in (LastSampleTree(acts, Len(acts) - 1) + 1) .. Len(acts) :
                            acts[i][1] = "add_row"}}

\* C16: with tree resampling enabled sample_tree is emitted exactly when,
\* after an add_row or remove_row, the stale count is zero and the fresh count
\* positive; the rows assigned at an emitted sample_tree are then exactly
\* those added since the previous sample_tree, and there is at least one.
\* With tree resampling disabled no sample_tree is emitted.
C16_SampleTreeAtBatchEnd ==
    [][/\ pc = "tree" =>
             ((Len(actions') = Len(actions) + 1 /\ Yielded[1] = "sample_tree")
                 <=> (config.learning_sample_tree_steps > 0
                      /\ num_stale = 0 /\ num_fresh > 0))
       /\ (Len(actions') = Len(actions) + 1 /\ Yielded[1] = "sample_tree") =>
             /\ pc = "tree"
             /\ actions[Len(actions)][1] \in {"add_row", "remove_row"}
             /\ config.learning_sample_tree_steps > 0
             /\ assigned_rows' # {}
             /\ assigned_rows' = AddedSincePrevious(actions')
             /\ assigned_rows = assigned_rows']_vars

\* a third sample_tree over two rows, after rows of the earlier batches were
\* removed
C16_Witness ==
    /\ call[1] = "sample_tree"
    /\ Count("sample_tree") >= 3
    /\ Count("remove_row") >= 2
    /\ Cardinality(assigned_rows) >= 2

\* C17: the number of rows assigned at a sample_tree is at least the number
\* assigned at any earlier sample_tree, and between two remove_row actions
\* there is always an add_row.
C17_WorkingSetGrows ==
    /\ \A i, j \in DOMAIN actions :
          (i < j /\ actions[i][1] = "sample_tree" /\ actions[j][1] = "sample_tree")
              => NetAdds(i) <= NetAdds(j)
    /\ \A i, j \in DOMAIN actions :
          (i < j /\ actions[i][1] = "remove_row" /\ actions[j][1] = "remove_row")
              => \E k \in (i + 1) .. (j - 1) : actions[k][1] = "add_row"
    /\ (actions # <<>> /\ actions[Len(actions)][1] = "sample_tree")
          => NetAdds(Len(actions)) = Cardinality(assigned_rows)

\* a finished run whose last sample_tree saw more rows than its first, rows
\* having been removed in between
C17_Witness ==
    /\ pc = "done"
    /\ Count("remove_row") >= 2
    /\ \E i, j \in DOMAIN actions :
          /\ i < j
          /\ actions[i][1] = "sample_tree"
          /\ actions[j][1] = "sample_tree"
          /\ NetAdds(i) >= 1
          /\ NetAdds(i) < NetAdds(j)
          /\ \E k \in (i + 1) .. (j - 1) : actions[k][1] = "remove_row"

\* the least number of steps of size step that take start below zero
StepsBelowZero(start, step) ==
    CHOOSE n \in 1 .. (start + 1) :
        /\ start - n * step < 0
        /\ \A k \in 1 .. (n - 1) : start - k * step >= 0

\* the first action yielded is an add_row, and so are all up to the k-th,
\* which is the first remove_row
FirstRemoveAt(k) ==
    /\ k \in DOMAIN actions
    /\ actions[k][1] = "remove_row"
    /\ \A j \in 1 .. (k - 1) : actions[j][1] # "remove_row"

\* the add_row actions among the first k - 1
AddsBefore(k) == Cardinality({j \in 1 .. (k - 1) : actions[j][1] = "add_row"})

\* C18 as written: state starts at epochs x init_fraction x num_rows (here in
\* halves, as epochs is), and the add_row actions before the first remove_row
\* number what it takes to drive that below zero in steps of epochs - 1.
C18_StateScaledByRows ==
    /\ (pc = "loop" /\ actions = <<>>) =>
          state = config.learning_annealing_epochs
                      * config.learning_annealing_init_rows * num_rows
    /\ \A k \in DOMAIN actions :
          FirstRemoveAt(k) =>
              AddsBefore(k) = StepsBelowZero(
                  config.learning_annealing_epochs
                      * config.learning_annealing_init_rows * num_rows,
                  config.learning_annealing_epochs - 2)

\* C18, amended: state starts at epochs x learning_annealing_init_rows,
\* whatever num_rows is, and the add_row actions before the first remove_row
\* number what it takes to drive that below zero in steps of epochs - 1.
C18_StateFromInitRows ==
    /\ (pc = "loop" /\ actions = <<>>) =>
          state = config.learning_annealing_epochs
                      * config.learning_annealing_init_rows
    /\ \A k \in DOMAIN actions :
          FirstRemoveAt(k) =>
              AddsBefore(k) = StepsBelowZero(
                  config.learning_annealing_epochs
                      * config.learning_annealing_init_rows,
                  config.learning_annealing_epochs - 2)

\* a first remove_row after three add_row, over the largest dataset and with
\* one initial row
C18_Witness ==
    /\ num_rows = MaxAnnealRows
    /\ config.learning_annealing_init_rows = 1
    /\ \E k \in DOMAIN actions : FirstRemoveAt(k) /\ AddsBefore(k) = 3

\* v and w are the two ends of an edge of the current tree
TreeEdge(v, w) ==
    \E e \in EdgeIds : tree_grid[e] = <<v, w>> \/ tree_grid[e] = <<w, v>>

\* where the schedule visits v
VisitOf(v) == {i \in DOMAIN schedule : schedule[i].v = v}

\* C19: between operations the stored schedule is the one built from the
\* current tree: it visits each of the V vertices once, only its first entry
\* has no parent, every (vertex, parent) and (vertex, child) pair in it is an
\* edge of the current tree, and every vertex comes after its parent.  After a
\* sample_tree every edge_ss slot holds the tally of the edge that now has
\* that id.
C19_ScheduleMatchesTree ==
    /\ schedule = make_propagation_schedule(tree_grid)
    /\ Len(schedule) = V
    /\ \A v \in Vertices : Cardinality(VisitOf(v)) = 1
    /\ \A i \in DOMAIN schedule : (schedule[i].parent = None) <=> (i = 1)
    /\ \A i \in DOMAIN schedule :
          /\ schedule[i].parent # None =>
                /\ TreeEdge(schedule[i].v, schedule[i].parent)
                /\ \E j \in VisitOf(schedule[i].parent) : j < i
          /\ \A c \in DOMAIN schedule[i].children :
                TreeEdge(schedule[i].v, schedule[i].children[c])
    /\ call[1] = "sample_tree" =>
          \A e \in EdgeIds, m1 \in Clusters, m2 \in Clusters :
              edge_ss[e][m1][m2]
                  = Cardinality({r \in assigned_rows :
                                    /\ assignments[r][tree_grid[e][1]] = m1
                                    /\ assignments[r][tree_grid[e][2]] = m2})

\* a sample_tree over every row that installed a tree whose edge ids do not
\* follow the edges' order, with two rows that differ on some edge
C19_Witness ==
    /\ call[1] = "sample_tree"
    /\ num_rows = MaxRows
    /\ assigned_rows = Rows
    /\ tree_grid \notin ServedGrids
    /\ \E e \in EdgeIds :
          Cardinality({m \in Clusters \X Clusters : edge_ss[e][m[1]][m[2]] > 0}) >= 2

\* C20: later add_row, remove_row and sample_tree calls on the trainer leave
\* the server's posterior tables as they are, and every (vertex, child) pair
\* of the server's schedule is still found as an edge of the tree the server
\* consults, under the edge id it had before.
C20_ServerKeepsItsTree ==
    [][trainer_vars' # trainer_vars =>
          /\ posterior' = posterior
          /\ server_schedule' = server_schedule
          /\ served_edges' = served_edges
          /\ \A i \in DOMAIN server_schedule :
                \A c \in DOMAIN server_schedule[i].children :
                    served_edges'[i][c] # None]_vars

====
